---- MODULE Spec2Model ----
(***************************************************************************)
(* Host side of the OpenCL homography estimator,                           *)
(* src/backend/opencl/kernel/homography.hpp: computeH<T, htype>.           *)
(*                                                                         *)
(* The host enqueues commands on one command queue and continues; the      *)
(* device takes the commands in order and runs the work-groups of a        *)
(* kernel in any order.  A candidate homography is identified by the       *)
(* iteration that produced it; its residuals on the correspondences are    *)
(* given by a residual class.                                              *)
(***************************************************************************)
EXTENDS Integers, Sequences, FiniteSets, TLC

\* ------------------------------------------------------------ constants
HG_THREADS_X == 16
HG_THREADS_Y == 16
HG_THREADS == 256

\* ------------------------------------------------------------ bounds
\* largest number of 256-iteration blocks of a modelled call
MaxBlocks == 2
\* concurrent callers of computeH and the devices they are on
NumCallers == 3
NumDevices == 2
\* length N of the coordinate arrays x_src, y_src, x_dst, y_dst
NumCorr == 5

Undef == 0 - 1

VARIABLES
    htype, iterations, nsamples, inlier_thr,  \* arguments of computeH
    p, q, ca, cb, cbase,                      \* residual class of every iteration
    pc,                                       \* host position inside computeH
    minIdx, minMedian, blockIdx, idxH, inliersH, \* host locals
    queue,                                    \* commands enqueued, not yet complete
    solved,                                   \* rows of H written: none, some, all
    err,                                      \* residual matrix: blocks written, sorted
    inliersBuf, idxBuf, medianBuf,            \* inliers.data, idx.data, median.data
    cell,                                     \* the one-element scratch buffers
    bestH,                                    \* iteration whose homography bestH holds
    bufs,                                     \* bufferAlloc / bufferFree state
    launched,                                 \* kernels enqueued so far
    stale,                                    \* a read saw data not yet produced
    misuse,                                   \* a buffer freed twice or used after free
    cpc,                                      \* position of each concurrent caller
    once,                                     \* compileFlags[device]
    built,                                    \* buildProgram runs per device
    maps,                                     \* keys of hgProgs, chKernel, ... clKernel
    inMap,                                    \* map accesses under way
    raced                                     \* two callers were in one map, one writing

inputVars == <<htype, iterations, nsamples, inlier_thr, p, q, ca, cb, cbase>>
localVars == <<minIdx, minMedian, blockIdx, idxH, inliersH>>
dataVars == <<solved, err, inliersBuf, idxBuf, medianBuf, cell, bestH>>
cacheVars == <<cpc, once, built, maps, inMap, raced>>
vars == <<inputVars, pc, localVars, queue, dataVars, bufs, launched, stale, misuse, cacheVars>>

\* ------------------------------------------------------------ inputs
\* residuals of a candidate of each class on correspondence 0, 1, 2, ...
ResidualRows == << <<3, 3, 3, 3, 3>>, <<0, 1, 3, 3, 0>>, <<0, 0, 1, 3, 1>> >>
Classes == 1..Len(ResidualRows)

IterationChoices == {1, HG_THREADS, HG_THREADS + 1, MaxBlocks * HG_THREADS}
SampleChoices == {NumCorr - 1, NumCorr}
\* fewer correspondences than the four a homography needs
TooFewSamples == {3}
Positions(it) == {0, HG_THREADS - 1, HG_THREADS, it - 1} \cap (0..(it - 1))

ClassOf(i) == IF i = p THEN ca ELSE IF i = q THEN cb ELSE cbase
Resid(k, c) == ResidualRows[k][(c % Len(ResidualRows[k])) + 1]

\* ------------------------------------------------------------ helpers
divup(a, b) == (a + b - 1) \div b

blk_y_ch(it) == divup(it, HG_THREADS_Y)
blk_x_eh(it) == divup(it, HG_THREADS)
blk_x_cl(ns) == divup(ns, HG_THREADS)

InliersDims(ht, it, ns) == IF ht = "RANSAC" THEN blk_x_eh(it) ELSE divup(ns, HG_THREADS)
IdxDims(it) == blk_x_eh(it)
MedianDims(ht, it) == IF ht = "LMEDS" THEN blk_x_eh(it) ELSE 1

BlockLo(b) == b * HG_THREADS
BlockHi(b, n) == IF (b + 1) * HG_THREADS < n THEN (b + 1) * HG_THREADS - 1 ELSE n - 1

Fresh(n) == [b \in 0..(n - 1) |-> Undef]

RECURSIVE SumTo(_, _)
SumTo(f, n) == IF n = 0 THEN 0 ELSE f[n - 1] + SumTo(f, n - 1)

\* ------------------------------------------------------------ kernels
\* inlier count of a class-k candidate on the first n correspondences
CountInliers(k, n, thr) == Cardinality({c \in 0..(n - 1) : Resid(k, c) <= thr})

RECURSIVE InsertSorted(_, _)
InsertSorted(s, x) ==
    IF s = <<>> THEN <<x>>
    ELSE IF x <= Head(s) THEN <<x>> \o s
    ELSE <<Head(s)>> \o InsertSorted(Tail(s), x)

RECURSIVE SortRow(_)
SortRow(s) == IF s = <<>> THEN <<>> ELSE InsertSorted(SortRow(Tail(s)), Head(s))

ErrRow(k, n) == [c \in 1..n |-> Resid(k, c - 1)]
MedianPos(n) == ((n - 1) \div 2) + 1
\* what compute_median finds in the middle of a class-k column of err
MidOfRow(k, n, sorted) ==
    IF sorted THEN SortRow(ErrRow(k, n))[MedianPos(n)] ELSE ErrRow(k, n)[MedianPos(n)]

MaxOf(S) == CHOOSE x \in S : \A y \in S : y <= x
MinOf(S) == CHOOSE x \in S : \A y \in S : x <= y

\* the lowest iteration of lo..hi whose class is one of W
FirstOf(lo, hi, W) ==
    CHOOSE i \in lo..hi :
        /\ ClassOf(i) \in W
        /\ \A j \in lo..(i - 1) : ClassOf(j) \notin W

ClassesIn(lo, hi) == {ClassOf(i) : i \in lo..hi}

\* eval_homography (RANSAC), work-group b: the best iteration of the block,
\* the lowest one among equals
EvalBlock(b, it, ns, thr) ==
    LET ks == ClassesIn(BlockLo(b), BlockHi(b, it))
        m == MaxOf({CountInliers(k, ns, thr) : k \in ks})
        W == {k \in ks : CountInliers(k, ns, thr) = m}
    IN  [inliers |-> m, idx |-> FirstOf(BlockLo(b), BlockHi(b, it), W)]

\* compute_median, work-group b: the least median of the block,
\* the lowest iteration among equals
MedianBlock(b, it, ns, sorted) ==
    LET ks == ClassesIn(BlockLo(b), BlockHi(b, it))
        m == MinOf({MidOfRow(k, ns, sorted) : k \in ks})
        W == {k \in ks : MidOfRow(k, ns, sorted) = m}
    IN  [median |-> m, idx |-> FirstOf(BlockLo(b), BlockHi(b, it), W)]

\* the first position of buffer f that holds m
FirstAt(f, m) ==
    CHOOSE i \in DOMAIN f : f[i] = m /\ \A j \in DOMAIN f : j < i => f[j] # m

\* find_min_median over the per-block medians: the least median and the
\* iteration idx has for it, the first block among equals
FindMinMedian(med, idx) ==
    LET m == MinOf({med[i] : i \in DOMAIN med})
    IN  [median |-> m, idx |-> idx[FirstAt(med, m)]]

\* kernel::ireduce<unsigned, af_max_t>: the largest value and where it is, the
\* first position among equals
IReduceMax(inl) ==
    LET m == MaxOf({inl[i] : i \in DOMAIN inl})
    IN  [val |-> m, loc |-> FirstAt(inl, m)]

\* compute_lmeds_inliers, work-group b, homography of iteration h
LmedsBlock(b, h, ns, thr) ==
    Cardinality({c \in BlockLo(b)..BlockHi(b, ns) : Resid(ClassOf(h), c) < thr})

\* ------------------------------------------------------------ commands
Cmd(op, n, groups, arg) == [op |-> op, n |-> n, groups |-> groups, arg |-> arg]

ChCmd(it) == Cmd("ch", blk_y_ch(it), {}, 0)
EhCmd(it) == Cmd("eh", 0, 0..(blk_x_eh(it) - 1), 0)
SortCmd == Cmd("sort", 0, {}, 0)
CmCmd(it) == Cmd("cm", 0, 0..(blk_x_eh(it) - 1), 0)
FmCmd == Cmd("fm", 0, {}, 0)
CopyCmd(i) == Cmd("copy", 0, {}, i)
ClCmd(ns, m) == Cmd("cl", 0, 0..(blk_x_cl(ns) - 1), m)
ReduceCmd == Cmd("reduce", 0, {}, 0)
IReduceCmd == Cmd("ireduce", 0, {}, 0)

\* enqueueReadBuffer(..., CL_TRUE, ...)
BlockingRead_async == FALSE
BlockingRead == TRUE
ReadReady == BlockingRead => queue = <<>>

\* if (blk_x_eh > 1): reduce the per-block medians on the device
NeedsFindMin_two(it) == blk_x_eh(it) > 2
NeedsFindMin(it) == blk_x_eh(it) > 1

\* statement order after minMedian and minIdx are read: copy to bestH,
\* compute_lmeds_inliers, then the allocation of totalInliers
LmedsRefine_swapped == <<"launch_cl", "copy_lmeds", "alloc_totalInliers">>
LmedsRefine == <<"copy_lmeds", "launch_cl", "alloc_totalInliers">>
Succ(seq, x) == seq[(CHOOSE i \in 1..(Len(seq) - 1) : seq[i] = x) + 1]

\* the threshold argument of clOp: minMedian
ClThreshold_thr(med, thr) == thr
ClThreshold(med, thr) == med

ScalarNames == {"finalMedian", "finalIdx", "totalInliers", "bestInliers", "bestIdx"}
BufNames == {"idx", "inliers", "median"} \cup ScalarNames

Live(names) == \A n \in names : bufs[n] = "live"

\* ------------------------------------------------------------ Init
Inputs(hts, its, nss) ==
    /\ htype \in hts
    /\ iterations \in its
    /\ nsamples \in nss
    /\ inlier_thr = 1
    /\ p \in Positions(iterations)
    /\ q \in Positions(iterations)
    /\ ca \in Classes
    /\ cb \in Classes
    /\ cbase = 2
    /\ IF iterations = 1 THEN q = p /\ cb = ca ELSE p < q

InitState ==
    /\ minIdx = Undef /\ minMedian = Undef /\ blockIdx = Undef
    /\ idxH = Undef /\ inliersH = Undef
    /\ queue = <<>>
    /\ solved = "none"
    /\ err = [written |-> {}, sorted |-> FALSE]
    /\ inliersBuf = <<>> /\ idxBuf = <<>> /\ medianBuf = <<>>
    /\ cell = [n \in ScalarNames |-> Undef]
    /\ bestH = Undef
    /\ bufs = [n \in BufNames |-> "none"]
    /\ launched = {}
    /\ stale = FALSE
    /\ misuse = FALSE

\* ---- the kernel cache: static once_flag and std::map objects of computeH
Callers == 1..NumCallers
Devices == 0..(NumDevices - 1)
\* int device = getActiveDeviceId()
DeviceOf(t) == t % NumDevices
\* the maps in the order the call_once body fills them
MapOrder == <<"hgProgs", "chKernel", "ehKernel", "cmKernel", "fmKernel", "clKernel">>

\* every device built: the state of the cache once call_once has returned
CacheReady ==
    /\ cpc = [t \in Callers |-> [at |-> "launched", k |-> 0]]
    /\ once = [d \in Devices |-> "done"]
    /\ built = [d \in Devices |-> 1]
    /\ maps = [m \in 1..Len(MapOrder) |-> Devices]
    /\ inMap = {}
    /\ raced = FALSE

Init ==
    /\ Inputs({"RANSAC", "LMEDS"}, IterationChoices, SampleChoices)
    /\ InitState /\ pc = "launch_ch" /\ CacheReady

\* a call with nsamples < 4
InitTooFew ==
    /\ Inputs({"RANSAC", "LMEDS"}, IterationChoices, TooFewSamples)
    /\ InitState /\ pc = "launch_ch" /\ CacheReady

\* ------------------------------------------------------------ host
Goto(from, to) == pc = from /\ pc' = to

Enqueue(c) == queue' = Append(queue, c)

Alloc(name) ==
    /\ bufs' = [bufs EXCEPT ![name] = "live"]
    /\ misuse' = misuse

Free(name) ==
    /\ bufs' = [bufs EXCEPT ![name] = "freed"]
    /\ misuse' = (misuse \/ bufs[name] # "live")

\* chOp(EnqueueArgs(getQueue(), global_ch, local_ch), ...)
LaunchCh ==
    /\ Goto("launch_ch", "alloc_idx")
    /\ Enqueue(ChCmd(iterations))
    /\ launched' = launched \cup {"ch"}
    /\ UNCHANGED <<cacheVars, inputVars, localVars, dataVars, bufs, stale, misuse>>

AllocIdx ==
    /\ Goto("alloc_idx", "alloc_inliers")
    /\ Alloc("idx")
    /\ idxBuf' = Fresh(IdxDims(iterations))
    /\ UNCHANGED <<cacheVars, inputVars, localVars, queue, solved, err, inliersBuf, medianBuf,
                   cell, bestH, launched, stale>>

AllocInliers ==
    /\ Goto("alloc_inliers", "alloc_median")
    /\ Alloc("inliers")
    /\ inliersBuf' = Fresh(InliersDims(htype, iterations, nsamples))
    /\ UNCHANGED <<cacheVars, inputVars, localVars, queue, solved, err, idxBuf, medianBuf,
                   cell, bestH, launched, stale>>

AllocMedian ==
    /\ Goto("alloc_median", "launch_eh")
    /\ Alloc("median")
    /\ medianBuf' = Fresh(MedianDims(htype, iterations))
    /\ UNCHANGED <<cacheVars, inputVars, localVars, queue, solved, err, inliersBuf, idxBuf,
                   cell, bestH, launched, stale>>

\* ehOp(EnqueueArgs(getQueue(), global_eh, local_eh), ...)
LaunchEh ==
    /\ pc = "launch_eh"
    /\ pc' = IF htype = "LMEDS" THEN "sort0" ELSE "alloc_bestInliers"
    /\ Enqueue(EhCmd(iterations))
    /\ launched' = launched \cup {"eh"}
    /\ UNCHANGED <<cacheVars, inputVars, localVars, dataVars, bufs, stale, misuse>>


\* ---- htype == AF_HOMOGRAPHY_LMEDS
At(f, i) == IF i \in DOMAIN f THEN f[i] ELSE Undef

\* kernel::sort0<float, true>(err)
Sort0 ==
    /\ Goto("sort0", "launch_cm")
    /\ Enqueue(SortCmd)
    /\ launched' = launched \cup {"sort"}
    /\ UNCHANGED <<cacheVars, inputVars, localVars, dataVars, bufs, stale, misuse>>

\* cmOp(EnqueueArgs(getQueue(), global_eh, local_eh), ...)
LaunchCm ==
    /\ pc = "launch_cm"
    /\ pc' = IF NeedsFindMin(iterations) THEN "alloc_finalMedian" ELSE "read_median"
    /\ Enqueue(CmCmd(iterations))
    /\ launched' = launched \cup {"cm"}
    /\ UNCHANGED <<cacheVars, inputVars, localVars, dataVars, bufs, stale, misuse>>

AllocFinalMedian ==
    /\ Goto("alloc_finalMedian", "alloc_finalIdx")
    /\ Alloc("finalMedian")
    /\ UNCHANGED <<cacheVars, inputVars, localVars, queue, dataVars, launched, stale>>

AllocFinalIdx ==
    /\ Goto("alloc_finalIdx", "launch_fm")
    /\ Alloc("finalIdx")
    /\ UNCHANGED <<cacheVars, inputVars, localVars, queue, dataVars, launched, stale>>

\* fmOp(EnqueueArgs(getQueue(), global_fm, local_fm), ...)
LaunchFm ==
    /\ Goto("launch_fm", "read_finalMedian")
    /\ Enqueue(FmCmd)
    /\ launched' = launched \cup {"fm"}
    /\ UNCHANGED <<cacheVars, inputVars, localVars, dataVars, bufs, stale, misuse>>

\* a host read of value v out of buffer name
HostRead(name, v) ==
    /\ ReadReady
    /\ stale' = (stale \/ v = Undef)
    /\ misuse' = (misuse \/ ~Live({name}))
    /\ UNCHANGED <<cacheVars, inputVars, queue, dataVars, bufs, launched>>

ReadFinalMedian ==
    /\ Goto("read_finalMedian", "read_finalIdx")
    /\ HostRead("finalMedian", cell.finalMedian)
    /\ minMedian' = cell.finalMedian
    /\ UNCHANGED <<minIdx, blockIdx, idxH, inliersH>>

ReadFinalIdx ==
    /\ Goto("read_finalIdx", "free_finalMedian")
    /\ HostRead("finalIdx", cell.finalIdx)
    /\ minIdx' = cell.finalIdx
    /\ UNCHANGED <<minMedian, blockIdx, idxH, inliersH>>

FreeFinalMedian ==
    /\ Goto("free_finalMedian", "free_finalIdx")
    /\ Free("finalMedian")
    /\ UNCHANGED <<cacheVars, inputVars, localVars, queue, dataVars, launched, stale>>

FreeFinalIdx ==
    /\ Goto("free_finalIdx", LmedsRefine[1])
    /\ Free("finalIdx")
    /\ UNCHANGED <<cacheVars, inputVars, localVars, queue, dataVars, launched, stale>>

\* else branch: one block, median[0] and idx[0] are the result
ReadMedian ==
    /\ Goto("read_median", "read_idx")
    /\ HostRead("median", At(medianBuf, 0))
    /\ minMedian' = At(medianBuf, 0)
    /\ UNCHANGED <<minIdx, blockIdx, idxH, inliersH>>

ReadIdx ==
    /\ Goto("read_idx", LmedsRefine[1])
    /\ HostRead("idx", At(idxBuf, 0))
    /\ minIdx' = At(idxBuf, 0)
    /\ UNCHANGED <<minMedian, blockIdx, idxH, inliersH>>

\* source offset of enqueueCopyBuffer(*H.data, *bestH.data, i*9*sizeof(T), ...)
CopySrc_next(i) == i + 1
CopySrc(i) == i

CopyLmeds ==
    /\ Goto("copy_lmeds", Succ(LmedsRefine, "copy_lmeds"))
    /\ Enqueue(CopyCmd(CopySrc(minIdx)))
    /\ launched' = launched \cup {"copy"}
    /\ UNCHANGED <<cacheVars, inputVars, localVars, dataVars, bufs, stale, misuse>>

\* clOp(EnqueueArgs(getQueue(), global_cl, local_cl), ..., minMedian, nsamples)
LaunchCl ==
    /\ Goto("launch_cl", Succ(LmedsRefine, "launch_cl"))
    /\ Enqueue(ClCmd(nsamples, ClThreshold(minMedian, inlier_thr)))
    /\ launched' = launched \cup {"cl"}
    /\ UNCHANGED <<cacheVars, inputVars, localVars, dataVars, bufs, stale, misuse>>

AllocTotalInliers ==
    /\ Goto("alloc_totalInliers", "reduce")
    /\ Alloc("totalInliers")
    /\ UNCHANGED <<cacheVars, inputVars, localVars, queue, dataVars, launched, stale>>

\* kernel::reduce<unsigned, unsigned, af_add_t>(totalInliers, inliers, 0, ...)
Reduce ==
    /\ Goto("reduce", "read_totalInliers")
    /\ Enqueue(ReduceCmd)
    /\ launched' = launched \cup {"reduce"}
    /\ UNCHANGED <<cacheVars, inputVars, localVars, dataVars, bufs, stale, misuse>>

ReadTotalInliers ==
    /\ Goto("read_totalInliers", "free_totalInliers")
    /\ HostRead("totalInliers", cell.totalInliers)
    /\ inliersH' = cell.totalInliers
    /\ UNCHANGED <<minIdx, minMedian, blockIdx, idxH>>

FreeTotalInliers ==
    /\ Goto("free_totalInliers", "free_inliers")
    /\ Free("totalInliers")
    /\ UNCHANGED <<cacheVars, inputVars, localVars, queue, dataVars, launched, stale>>

\* ---- htype == AF_HOMOGRAPHY_RANSAC
AllocBestInliers ==
    /\ Goto("alloc_bestInliers", "alloc_bestIdx")
    /\ Alloc("bestInliers")
    /\ UNCHANGED <<cacheVars, inputVars, localVars, queue, dataVars, launched, stale>>

AllocBestIdx ==
    /\ Goto("alloc_bestIdx", "ireduce")
    /\ Alloc("bestIdx")
    /\ UNCHANGED <<cacheVars, inputVars, localVars, queue, dataVars, launched, stale>>

\* kernel::ireduce<unsigned, af_max_t>(bestInliers, bestIdx.data, inliers, 0)
IReduce ==
    /\ Goto("ireduce", "read_bestIdx")
    /\ Enqueue(IReduceCmd)
    /\ launched' = launched \cup {"ireduce"}
    /\ UNCHANGED <<cacheVars, inputVars, localVars, dataVars, bufs, stale, misuse>>

ReadBestIdx ==
    /\ Goto("read_bestIdx", "read_idx_at")
    /\ HostRead("bestIdx", cell.bestIdx)
    /\ blockIdx' = cell.bestIdx
    /\ UNCHANGED <<minIdx, minMedian, idxH, inliersH>>

\* element of idx.data read at offset blockIdx*sizeof(unsigned)
IdxSlot_first(b) == 0
IdxSlot(b) == b

ReadIdxAt ==
    /\ Goto("read_idx_at", "read_bestInliers")
    /\ HostRead("idx", At(idxBuf, IdxSlot(blockIdx)))
    /\ idxH' = At(idxBuf, IdxSlot(blockIdx))
    /\ UNCHANGED <<minIdx, minMedian, blockIdx, inliersH>>

ReadBestInliers ==
    /\ Goto("read_bestInliers", "copy_ransac")
    /\ HostRead("bestInliers", cell.bestInliers)
    /\ inliersH' = cell.bestInliers
    /\ UNCHANGED <<minIdx, minMedian, blockIdx, idxH>>

CopyRansac ==
    /\ Goto("copy_ransac", "free_bestInliers")
    /\ Enqueue(CopyCmd(CopySrc(idxH)))
    /\ launched' = launched \cup {"copy"}
    /\ UNCHANGED <<cacheVars, inputVars, localVars, dataVars, bufs, stale, misuse>>

FreeBestInliers ==
    /\ Goto("free_bestInliers", "free_bestIdx")
    /\ Free("bestInliers")
    /\ UNCHANGED <<cacheVars, inputVars, localVars, queue, dataVars, launched, stale>>

FreeBestIdx ==
    /\ Goto("free_bestIdx", "free_inliers")
    /\ Free("bestIdx")
    /\ UNCHANGED <<cacheVars, inputVars, localVars, queue, dataVars, launched, stale>>

\* ---- both estimators
FreeInliers ==
    /\ Goto("free_inliers", "free_idx")
    /\ Free("inliers")
    /\ UNCHANGED <<cacheVars, inputVars, localVars, queue, dataVars, launched, stale>>

FreeIdx ==
    /\ Goto("free_idx", "free_median")
    /\ Free("idx")
    /\ UNCHANGED <<cacheVars, inputVars, localVars, queue, dataVars, launched, stale>>

\* the last bufferFree, then return (int)inliersH
FreeMedian ==
    /\ Goto("free_median", "done")
    /\ Free("median")
    /\ UNCHANGED <<cacheVars, inputVars, localVars, queue, dataVars, launched, stale>>

\* the calls of the try block that can throw
Fallible ==
    {"launch_ch", "alloc_idx", "alloc_inliers", "alloc_median", "launch_eh",
     "sort0", "launch_cm", "alloc_finalMedian", "alloc_finalIdx", "launch_fm",
     "read_finalMedian", "read_finalIdx", "read_median", "read_idx",
     "copy_lmeds", "launch_cl", "alloc_totalInliers", "reduce", "read_totalInliers",
     "alloc_bestInliers", "alloc_bestIdx", "ireduce", "read_bestIdx", "read_idx_at",
     "read_bestInliers", "copy_ransac"}

\* catch (cl::Error err) { CL_TO_AF_ERROR(err); throw; }
Throw ==
    /\ pc \in Fallible
    /\ pc' = "error"
    /\ UNCHANGED <<cacheVars, inputVars, localVars, queue, dataVars, bufs, launched, stale, misuse>>


\* ------------------------------------------------------------ device
\* The queue is in order: only the first command runs, and a kernel's
\* work-groups run one at a time in any order.
Busy(op) == queue # <<>> /\ Head(queue).op = op

Put(f, i, v) == IF i \in DOMAIN f THEN [f EXCEPT ![i] = v] ELSE f

\* work-group b of the first command is done; the command leaves with its last
GroupDone(b) ==
    queue' = IF Head(queue).groups = {b} THEN Tail(queue)
             ELSE [queue EXCEPT ![1].groups = @ \ {b}]

Hfull == solved = "all"
NoUndef(f) == \A i \in DOMAIN f : f[i] # Undef

\* compute_homography: one 16 x 16 work-group solves 16 iterations and writes
\* their rows of H.  The first work-groups to finish leave H partly written
DevSolveSome ==
    /\ Busy("ch")
    /\ Head(queue).n > 1
    /\ solved = "none"
    /\ solved' = "some"
    /\ UNCHANGED <<cacheVars, inputVars, pc, localVars, queue, err, inliersBuf, idxBuf, medianBuf,
                   cell, bestH, bufs, launched, stale, misuse>>

\* the last work-group of compute_homography finishes
DevSolveAll ==
    /\ Busy("ch")
    /\ Head(queue).n > 1 => solved = "some"
    /\ solved' = "all"
    /\ queue' = Tail(queue)
    /\ UNCHANGED <<cacheVars, inputVars, pc, localVars, err, inliersBuf, idxBuf, medianBuf, cell,
                   bestH, bufs, launched, stale, misuse>>

\* eval_homography, work-group b
DevEval(b) ==
    /\ Busy("eh")
    /\ b \in Head(queue).groups
    /\ GroupDone(b)
    /\ stale' = (stale \/ ~Hfull)
    /\ misuse' = (misuse \/ ~Live({"inliers", "idx"}))
    /\ IF htype = "RANSAC"
       THEN LET r == EvalBlock(b, iterations, nsamples, inlier_thr)
            IN  /\ inliersBuf' = Put(inliersBuf, b, r.inliers)
                /\ idxBuf' = Put(idxBuf, b, r.idx)
                /\ err' = err
       ELSE /\ err' = [err EXCEPT !.written = @ \cup {b}]
            /\ UNCHANGED <<inliersBuf, idxBuf>>
    /\ UNCHANGED <<cacheVars, inputVars, pc, localVars, solved, medianBuf, cell, bestH, bufs, launched>>

\* sort0: every column of err in ascending order
DevSort ==
    /\ Busy("sort")
    /\ queue' = Tail(queue)
    /\ err' = [err EXCEPT !.sorted = TRUE]
    /\ stale' = (stale \/ err.written # 0..(blk_x_eh(iterations) - 1))
    /\ UNCHANGED <<cacheVars, inputVars, pc, localVars, solved, inliersBuf, idxBuf, medianBuf, cell,
                   bestH, bufs, launched, misuse>>

\* compute_median, work-group b
DevMedian(b) ==
    /\ Busy("cm")
    /\ b \in Head(queue).groups
    /\ GroupDone(b)
    /\ stale' = (stale \/ b \notin err.written \/ ~err.sorted)
    /\ misuse' = (misuse \/ ~Live({"median", "idx"}))
    /\ LET r == MedianBlock(b, iterations, nsamples, err.sorted)
       IN  /\ medianBuf' = Put(medianBuf, b, r.median)
           /\ idxBuf' = Put(idxBuf, b, r.idx)
    /\ UNCHANGED <<cacheVars, inputVars, pc, localVars, solved, err, inliersBuf, cell, bestH, bufs,
                   launched>>

\* find_min_median, one work-group
DevFindMin ==
    /\ Busy("fm")
    /\ queue' = Tail(queue)
    /\ stale' = (stale \/ ~NoUndef(medianBuf) \/ ~NoUndef(idxBuf))
    /\ misuse' = (misuse \/ ~Live({"median", "idx", "finalMedian", "finalIdx"}))
    /\ LET r == FindMinMedian(medianBuf, idxBuf)
       IN  cell' = [cell EXCEPT !.finalMedian = r.median, !.finalIdx = r.idx]
    /\ UNCHANGED <<cacheVars, inputVars, pc, localVars, solved, err, inliersBuf, idxBuf, medianBuf,
                   bestH, bufs, launched>>

\* enqueueCopyBuffer(*H.data, *bestH.data, ...)
DevCopy ==
    /\ Busy("copy")
    /\ queue' = Tail(queue)
    /\ bestH' = Head(queue).arg
    /\ stale' = (stale \/ ~Hfull \/ Head(queue).arg = Undef)
    /\ UNCHANGED <<cacheVars, inputVars, pc, localVars, solved, err, inliersBuf, idxBuf, medianBuf,
                   cell, bufs, launched, misuse>>

\* compute_lmeds_inliers, work-group b
DevLmedsInliers(b) ==
    /\ Busy("cl")
    /\ b \in Head(queue).groups
    /\ GroupDone(b)
    /\ stale' = (stale \/ bestH = Undef)
    /\ misuse' = (misuse \/ ~Live({"inliers"}))
    /\ inliersBuf' = Put(inliersBuf, b, LmedsBlock(b, bestH, nsamples, Head(queue).arg))
    /\ UNCHANGED <<cacheVars, inputVars, pc, localVars, solved, err, idxBuf, medianBuf, cell, bestH,
                   bufs, launched>>

\* reduce<af_add_t>: totalInliers = sum of inliers
DevReduce ==
    /\ Busy("reduce")
    /\ queue' = Tail(queue)
    /\ stale' = (stale \/ ~NoUndef(inliersBuf))
    /\ misuse' = (misuse \/ ~Live({"inliers", "totalInliers"}))
    /\ cell' = [cell EXCEPT !.totalInliers = SumTo(inliersBuf, Cardinality(DOMAIN inliersBuf))]
    /\ UNCHANGED <<cacheVars, inputVars, pc, localVars, solved, err, inliersBuf, idxBuf, medianBuf,
                   bestH, bufs, launched>>

\* ireduce<af_max_t>: bestInliers = max of inliers, bestIdx = where
DevIReduce ==
    /\ Busy("ireduce")
    /\ queue' = Tail(queue)
    /\ stale' = (stale \/ ~NoUndef(inliersBuf))
    /\ misuse' = (misuse \/ ~Live({"inliers", "bestInliers", "bestIdx"}))
    /\ LET r == IReduceMax(inliersBuf)
       IN  cell' = [cell EXCEPT !.bestInliers = r.val, !.bestIdx = r.loc]
    /\ UNCHANGED <<cacheVars, inputVars, pc, localVars, solved, err, inliersBuf, idxBuf, medianBuf,
                   bestH, bufs, launched>>

Blocks == 0..(MaxBlocks - 1)

\* ------------------------------------------------------------ specification
Host ==
    \/ LaunchCh \/ AllocIdx \/ AllocInliers \/ AllocMedian \/ LaunchEh
    \/ Sort0 \/ LaunchCm \/ AllocFinalMedian \/ AllocFinalIdx \/ LaunchFm
    \/ ReadFinalMedian \/ ReadFinalIdx \/ FreeFinalMedian \/ FreeFinalIdx
    \/ ReadMedian \/ ReadIdx \/ CopyLmeds \/ LaunchCl \/ AllocTotalInliers
    \/ Reduce \/ ReadTotalInliers \/ FreeTotalInliers
    \/ AllocBestInliers \/ AllocBestIdx \/ IReduce \/ ReadBestIdx \/ ReadIdxAt
    \/ ReadBestInliers \/ CopyRansac \/ FreeBestInliers \/ FreeBestIdx
    \/ FreeInliers \/ FreeIdx \/ FreeMedian
    \/ Throw

Device ==
    \/ DevSolveSome
    \/ DevSolveAll
    \/ \E b \in Blocks : DevEval(b)
    \/ DevSort
    \/ \E b \in Blocks : DevMedian(b)
    \/ DevFindMin
    \/ DevCopy
    \/ \E b \in Blocks : DevLmedsInliers(b)
    \/ DevReduce
    \/ DevIReduce

Next == Host \/ Device

Spec == Init /\ [][Next]_vars

SpecTooFew == InitTooFew /\ [][Next]_vars


\* ------------------------------------------------------------ kernel cache
\* std::call_once(compileFlags[device], ...) and the first use of the maps,
\* for NumCallers threads that enter computeH together.
pipelineVars == <<inputVars, pc, localVars, queue, dataVars, bufs, launched, stale, misuse>>

At0(a) == [at |-> a, k |-> 0]
Move(t, a, k) == cpc' = [cpc EXCEPT ![t] = [at |-> a, k |-> k]]

\* another caller is inside map k, and one of the two accesses writes
Conflict(t, k, write) ==
    \E a \in inMap : a.who # t /\ a.map = k /\ (write \/ a.write)

\* call_once finds the flag unset: this caller runs the lambda
CallOnceEnter(t) ==
    /\ cpc[t].at = "call_once"
    /\ once[DeviceOf(t)] = "idle"
    /\ once' = [once EXCEPT ![DeviceOf(t)] = "running"]
    /\ Move(t, "build", 0)
    /\ UNCHANGED <<pipelineVars, built, maps, inMap, raced>>

\* call_once finds the flag set: it returns at once
CallOnceSkip(t) ==
    /\ cpc[t].at = "call_once"
    /\ once[DeviceOf(t)] = "done"
    /\ Move(t, "use", 0)
    /\ UNCHANGED <<pipelineVars, once, built, maps, inMap, raced>>

\* buildProgram(prog, homography_cl, homography_cl_len, options.str())
BuildProgram(t) ==
    /\ cpc[t].at = "build"
    /\ built' = [built EXCEPT ![DeviceOf(t)] = @ + 1]
    /\ Move(t, "insert", 1)
    /\ UNCHANGED <<pipelineVars, once, maps, inMap, raced>>

\* hgProgs[device] = ..., chKernel[device] = ..., ...: operator[] enters the map
BeginInsert(t) ==
    /\ cpc[t].at = "insert"
    /\ inMap' = inMap \cup {[who |-> t, map |-> cpc[t].k, write |-> TRUE]}
    /\ raced' = (raced \/ Conflict(t, cpc[t].k, TRUE))
    /\ Move(t, "inserting", cpc[t].k)
    /\ UNCHANGED <<pipelineVars, once, built, maps>>

\* the insertion ends; one made while another caller was in the map is a data
\* race, after which the key may be missing.  The last insertion ends the
\* lambda and sets the flag
EndInsert(t) ==
    /\ cpc[t].at = "inserting"
    /\ inMap' = {a \in inMap : a.who # t}
    /\ \/ maps' = [maps EXCEPT ![cpc[t].k] = @ \cup {DeviceOf(t)}]
       \/ /\ \E a \in inMap : a.who # t /\ a.map = cpc[t].k
          /\ maps' = maps
    /\ IF cpc[t].k < Len(MapOrder)
       THEN Move(t, "insert", cpc[t].k + 1) /\ once' = once
       ELSE Move(t, "use", 0) /\ once' = [once EXCEPT ![DeviceOf(t)] = "done"]
    /\ UNCHANGED <<pipelineVars, built, raced>>

\* make_kernel<...>(*chKernel[device]): operator[] enters the map to read
BeginUse(t) ==
    /\ cpc[t].at = "use"
    /\ inMap' = inMap \cup {[who |-> t, map |-> 2, write |-> FALSE]}
    /\ raced' = (raced \/ Conflict(t, 2, FALSE))
    /\ Move(t, "using", 0)
    /\ UNCHANGED <<pipelineVars, once, built, maps>>

\* the kernel is launched, or a null Kernel* is dereferenced
EndUse(t) ==
    /\ cpc[t].at = "using"
    /\ inMap' = {a \in inMap : a.who # t}
    /\ Move(t, IF DeviceOf(t) \in maps[2] THEN "launched" ELSE "crashed", 0)
    /\ UNCHANGED <<pipelineVars, once, built, maps, raced>>

InitCache ==
    /\ htype = "RANSAC" /\ iterations = 1 /\ nsamples = NumCorr /\ inlier_thr = 1
    /\ p = 0 /\ q = 0 /\ ca = 2 /\ cb = 2 /\ cbase = 2
    /\ InitState
    /\ pc = "call_once"
    /\ cpc = [t \in Callers |-> At0("call_once")]
    /\ once = [d \in Devices |-> "idle"]
    /\ built = [d \in Devices |-> 0]
    /\ maps = [m \in 1..Len(MapOrder) |-> {}]
    /\ inMap = {}
    /\ raced = FALSE

NextCache ==
    \E t \in Callers :
        \/ CallOnceEnter(t)
        \/ CallOnceSkip(t)
        \/ BuildProgram(t)
        \/ BeginInsert(t)
        \/ EndInsert(t)
        \/ BeginUse(t)
        \/ EndUse(t)

SpecCache == InitCache /\ [][NextCache]_vars

\* ------------------------------------------------------------ LMedS selection
\* The selection of the LMedS branch as a function of the scores: what
\* compute_median leaves in median and idx, then find_min_median or the
\* direct read, then the copy.
BigIterations == HG_THREADS * HG_THREADS + 1

MedianResults(it, ns) ==
    [b \in CmCmd(it).groups |-> MedianBlock(b, it, ns, TRUE)]

LmedsSelect(it, ns) ==
    LET res == MedianResults(it, ns)
        med == [b \in DOMAIN Fresh(MedianDims("LMEDS", it)) |->
                   IF b \in DOMAIN res THEN res[b].median ELSE Undef]
        idx == [b \in DOMAIN Fresh(IdxDims(it)) |->
                   IF b \in DOMAIN res THEN res[b].idx ELSE Undef]
    IN  IF NeedsFindMin(it) THEN FindMinMedian(med, idx)
        ELSE [median |-> At(med, 0), idx |-> At(idx, 0)]

InitSelect ==
    /\ Inputs({"LMEDS"}, IterationChoices \cup {BigIterations}, SampleChoices)
    /\ InitState
    /\ pc = "select"
    /\ CacheReady

Select ==
    /\ pc = "select"
    /\ pc' = "selected"
    /\ LET r == LmedsSelect(iterations, nsamples)
       IN  /\ minMedian' = r.median
           /\ minIdx' = r.idx
           /\ bestH' = CopySrc(r.idx)
    /\ UNCHANGED <<cacheVars, inputVars, blockIdx, idxH, inliersH, queue, solved, err,
                   inliersBuf, idxBuf, medianBuf, cell, bufs, launched, stale, misuse>>

SpecSelect == InitSelect /\ [][Select]_vars

\* ------------------------------------------------------------ properties
Iters == 0..(iterations - 1)
BlockOf(i) == i \div HG_THREADS

\* inlier count of iteration i, as eval_homography is given it
Score(i) == CountInliers(ClassOf(i), nsamples, inlier_thr)
\* median residual of iteration i
Median(i) == MidOfRow(ClassOf(i), nsamples, TRUE)

Returned == pc = "done"
Finished == pc = "done" /\ queue = <<>>

\* C1: in RANSAC mode the iteration whose homography is copied into bestH is
\* one of 0..iterations-1 and no iteration has more inliers than it has.
C1_RansacPicksMax ==
    (htype = "RANSAC" /\ bestH # Undef) =>
        /\ bestH \in Iters
        /\ \A j \in Iters : Score(j) <= Score(bestH)

C1_Witness ==
    /\ htype = "RANSAC" /\ Finished /\ bestH # Undef
    /\ BlockOf(bestH) = 1
    /\ \E j \in Iters : BlockOf(j) = 0 /\ Score(j) < Score(bestH)

\* C3: every iteration before the selected one is strictly worse than it:
\* fewer inliers in RANSAC, a larger median in LMedS.
C3_LowestIndexAmongEquals ==
    bestH # Undef =>
        \A j \in 0..(bestH - 1) :
            IF htype = "RANSAC" THEN Score(j) < Score(bestH)
            ELSE Median(j) > Median(bestH)

C3_Witness ==
    /\ Finished /\ htype = "RANSAC" /\ bestH # Undef
    /\ \E j \in Iters : BlockOf(j) # BlockOf(bestH) /\ Score(j) = Score(bestH)

\* the result of a call as a function of its arguments alone
BestClasses ==
    LET ks == ClassesIn(0, iterations - 1)
    IN  IF htype = "RANSAC"
        THEN {k \in ks : \A l \in ks :
                 CountInliers(l, nsamples, inlier_thr) <= CountInliers(k, nsamples, inlier_thr)}
        ELSE {k \in ks : \A l \in ks :
                 MidOfRow(k, nsamples, TRUE) <= MidOfRow(l, nsamples, TRUE)}
ExpectedWinner == FirstOf(0, iterations - 1, BestClasses)
ExpectedCount ==
    IF htype = "RANSAC" THEN Score(ExpectedWinner)
    ELSE Cardinality({c \in 0..(nsamples - 1) :
             Resid(ClassOf(ExpectedWinner), c) < Median(ExpectedWinner)})

\* C4: whatever the order of the work-groups and however far the host runs
\* ahead of the device, a call that returns has selected the same iteration,
\* left the same homography in bestH and returned the same count.
C4_Deterministic ==
    /\ Returned => inliersH = ExpectedCount
    /\ Returned => (IF htype = "RANSAC" THEN idxH ELSE minIdx) = ExpectedWinner
    /\ Finished => bestH = ExpectedWinner

C4_Witness ==
    /\ Finished /\ iterations > HG_THREADS
    /\ bestH = ExpectedWinner /\ ExpectedWinner > 0

\* C6: no command and no host read consumes data before the phase that
\* produces it is complete: evaluation starts with H complete, the sort with
\* err complete, the medians with err sorted, the reductions with every
\* per-block value written, compute_lmeds_inliers with bestH copied.
C6_PhaseOrder ==
    /\ ~stale
    /\ (Busy("eh") \/ Busy("copy")) => Hfull
    /\ (Busy("sort") \/ Busy("cm")) => err.written = 0..(blk_x_eh(iterations) - 1)
    /\ Busy("cm") => err.sorted
    /\ Busy("fm") => NoUndef(medianBuf)
    /\ Busy("ireduce") => NoUndef(inliersBuf)
    /\ Busy("cl") => bestH = minIdx /\ bestH # Undef
    /\ Busy("reduce") => NoUndef(inliersBuf)

C6_Witness ==
    /\ Busy("cl") /\ pc = "read_totalInliers" /\ Len(queue) = 2
    /\ iterations > HG_THREADS

C5_BestHOnlyOnSuccess ==
    /\ pc = "error" => bestH = Undef /\ "copy" \notin launched
    /\ "copy" \in launched =>
          pc \notin {"alloc_idx", "alloc_inliers", "alloc_median", "alloc_finalMedian",
                     "alloc_finalIdx", "alloc_totalInliers", "alloc_bestInliers",
                     "alloc_bestIdx"}

\* C8: a call with a configuration error launches nothing, allocates nothing,
\* leaves bestH alone and does not return normally.
ConfigError == iterations = 0 \/ nsamples < 4 \/ NumCorr < nsamples
C8_ConfigErrorFailsFast ==
    ConfigError =>
        /\ launched = {}
        /\ \A n \in BufNames : bufs[n] = "none"
        /\ bestH = Undef
        /\ pc \in {"launch_ch", "error"}

\* C9: at every exit of the call, normal or by exception, each buffer that was
\* allocated has been freed, and none is freed twice or used after its free.
C9_ScratchReleased ==
    /\ pc \in {"done", "error"} => \A n \in BufNames : bufs[n] # "live"
    /\ ~misuse


C10_CacheSafe ==
    /\ \A d \in Devices : built[d] <= 1
    /\ \A t \in Callers :
           cpc[t].at \in {"use", "using", "launched"} => once[DeviceOf(t)] = "done"
    /\ ~raced

====
